---- MODULE Spec2Model ----
(***************************************************************************)
(* The snapshot pipeline of dopplersky-workers: the runner                 *)
(* (scripts/run_snapshots.py), the batch orchestrator and the per-account  *)
(* task (src/services/snapshot_service.py), the post synchronizer          *)
(* (src/services/post_service.py), the store operations                    *)
(* (src/services/database_service.py) and the provider client              *)
(* (src/core/bluesky_client.py).                                           *)
(*                                                                         *)
(* The relational store and the remote provider are the environment: the   *)
(* store is a set of committed rows per table, every statement or          *)
(* transaction of the code is one step, and both the store and the         *)
(* provider may fail at any call (a bounded number of times).              *)
(***************************************************************************)
EXTENDS Integers, Sequences, FiniteSets, TLC

(***************************************************************************)
(* Bounds of the model.                                                    *)
(***************************************************************************)
\* rows of the users table; users 1 and NumUsers are tracked by the provider
NumUsers == 26
\* batch executions of one behaviour
MaxRuns == 2
\* clock ticks of one behaviour
MaxTicks == 1
\* injected store / provider failures of one behaviour
MaxFaults == 1
\* changes of the provider's data in one behaviour
MaxProviderChanges == 1
\* resolution of the clock: ticks per calendar day
TicksPerDay == 3

(***************************************************************************)
(* Program constants.                                                      *)
(***************************************************************************)
\* snapshot_service.py:99   chunk_size=25
ChunkSize == 25
\* post_service.py:46, 87   timedelta(days=7)
RecencyDays == 7
\* post_service.py:40       len(posts) < 10000
PostCap == 10000
\* settings.py:50           MAX_WORKERS default
MaxWorkers == 10
\* snapshot_service.py:37   user_data[7]
SkipIndex == 7
\* post_service.py:27       limit=100
PageLimit == 100

VARIABLES
    users,          \* table users:          did -> row (a tuple, as SELECT * returns it)
    posts,          \* table posts:          set of committed rows
    snapshots,      \* table snapshots:      set of committed rows
    snapshot_logs,  \* table snapshot_logs:  sequence of committed rows (physical order)
    profiles,       \* provider: did -> profile, for the dids the provider knows
    feed,           \* provider: did -> sequence of feed pages
    provVer,        \* number of changes of the provider's data so far
    now,            \* the clock, in ticks
    faults,         \* failures injected so far
    run,            \* per batch execution: the runner's and the orchestrator's locals
    task,           \* per batch execution and account: the per-account task's locals
    lastDone,       \* history: the batch execution that returned last
    pg,             \* one call of get_posts_for_actor, the working set by its length
    probe           \* one call of get_single_profile

vars == <<users, posts, snapshots, snapshot_logs, profiles, feed, provVer,
          now, faults, run, task, lastDone, pg, probe>>

store == <<users, posts, snapshots, snapshot_logs>>
provider == <<profiles, feed, provVer>>
client == <<pg, probe>>

(***************************************************************************)
(* Values.                                                                 *)
(***************************************************************************)
DIDs == 1..NumUsers
RealDids == {1, NumUsers}
Stranger == 0
Runs == 1..MaxRuns
None == "None"
Null == 0 - 1
NoCursor == [ts |-> Null, page |-> 0]
EmptyCursor == [ts |-> Null, page |-> 1]

Max(a, b) == IF a > b THEN a ELSE b

\* SUM(col) over a set of rows
RECURSIVE SumCol(_, _)
SumCol(S, col) ==
    IF S = {} THEN 0
    ELSE LET x == CHOOSE y \in S : TRUE IN x[col] + SumCol(S \ {x}, col)

Range(s) == {s[i] : i \in 1..Len(s)}

(***************************************************************************)
(* Time.  A timestamp is a number of ticks; its text form is the date      *)
(* followed by the time of day, and the first ten characters of the text   *)
(* are the date alone.  Texts compare as Python strings do.                *)
(***************************************************************************)
At(day, tod) == day * TicksPerDay + tod
DayOf(ts) == ts \div TicksPerDay
TodOf(ts) == ts % TicksPerDay
\* str(datetime) / the provider's ISO createdAt
IsoStr(ts) == <<DayOf(ts), TodOf(ts)>>
\* s[0:10]
DatePrefix(s) == <<s[1]>>
\* datetime.strptime(s[0:10], '%Y-%m-%d'): midnight of that date
ParseDate(s) == At(s[1], 0)

RECURSIVE StrLeq(_, _)
StrLeq(s, t) ==
    IF s = <<>> THEN TRUE
    ELSE IF t = <<>> THEN FALSE
    ELSE IF Head(s) < Head(t) THEN TRUE
    ELSE IF Head(s) > Head(t) THEN FALSE
    ELSE StrLeq(Tail(s), Tail(t))

\* now - timedelta(days=7)
TimeRange(t) == t - RecencyDays * TicksPerDay

Day0 == RecencyDays + 3
Now0 == At(Day0, TicksPerDay - 1)

(***************************************************************************)
(* The users table.  A row is the tuple SELECT * returns; the code reads   *)
(* it by position (Python positions start at 0).                           *)
(***************************************************************************)
Col(row, i) == row[i + 1]
UserRow(did, handle, displayName, avatar, skip) ==
    <<did, handle, displayName, avatar, 0, 0, 0, skip>>

\* UserProfile (bluesky_client.py)
Profile(did, handle, followers) ==
    [did |-> did, handle |-> handle, display_name |-> "name", avatar |-> "avatar",
     followers_count |-> followers, following_count |-> 50, posts_count |-> 5]

(***************************************************************************)
(* The provider's feed.  An entry is one element of response['feed'].      *)
(***************************************************************************)
Entry(uri, author, l, r, q, rp, created) ==
    [uri |-> uri, author |-> author, likeCount |-> l, replyCount |-> r,
     quoteCount |-> q, repostCount |-> rp, createdAt |-> created]

\* the posts account a has written: 1 recent, 2 on the cutoff day before the
\* cutoff instant, 3 older than the cutoff day, 4 at midnight of the cutoff
\* day, 5 and 6 on the day after the cutoff day (the cutoff day of a run that
\* starts one tick later)
CreatedAt(k) ==
    CASE k = 1 -> At(Day0 - 1, 1)
      [] k = 2 -> At(Day0 - RecencyDays, 1)
      [] k = 3 -> At(Day0 - RecencyDays - 1, 1)
      [] k = 5 -> At(Day0 - RecencyDays + 1, 2)
      [] k = 6 -> At(Day0 - RecencyDays + 1, 1)
      [] OTHER -> At(Day0 - RecencyDays, 0)
P(a, k) == Entry(<<a, k>>, a, 10 * k, k, k - 1, Max(3 - k, 0), CreatedAt(k))
\* a post of somebody else that a has reposted
Foreign == Entry(<<Stranger, 1>>, Stranger, 7, 7, 7, 7, At(Day0 - 1, 0))

Page(entries, cursor) == [feed |-> entries, cursor |-> cursor]
CursorAt(ts, page) == [ts |-> ts, page |-> page]

\* the feed of the end-to-end scenario: one page of three posts
PlainFeed(a) == << Page(<<P(a, 1), P(a, 2), P(a, 3)>>, NoCursor) >>

FeedShapes(a) == {
    \* one page, no next cursor
    PlainFeed(a),
    \* two overlapping pages, a repost, the cursor on the cutoff day
    << Page(<<P(a, 1), Foreign, P(a, 2)>>, CursorAt(CreatedAt(2), 2)),
       Page(<<P(a, 2), P(a, 3)>>, NoCursor) >>,
    \* two overlapping pages, the cursor inside the recency window
    << Page(<<P(a, 1)>>, CursorAt(CreatedAt(1), 2)),
       Page(<<P(a, 1), P(a, 4), P(a, 3)>>, NoCursor) >>,
    \* two pages, the cursor on the day after the cutoff day
    << Page(<<P(a, 1), P(a, 5)>>, CursorAt(CreatedAt(5), 2)),
       Page(<<P(a, 6)>>, NoCursor) >> }

\* a row of table posts
PostRow(uri, did, l, r, q, rp, created, updated) ==
    [uri |-> uri, did |-> did, likes |-> l, replies |-> r, quotes |-> q,
     reposts |-> rp, createdAt |-> created, updatedAt |-> updated]
RowOf(e, t) ==
    PostRow(e.uri, e.author, e.likeCount, e.replyCount, e.quoteCount,
            e.repostCount, e.createdAt, t)
StaleRowOf(e) ==
    PostRow(e.uri, e.author, e.likeCount - 1, e.replyCount, e.quoteCount,
            e.repostCount, e.createdAt, e.createdAt)

StaleShape(a) == {StaleRowOf(P(a, 1)), StaleRowOf(P(a, 2)), StaleRowOf(P(a, 3))}
StoredShapes(a) == { {}, StaleShape(a), {RowOf(P(a, 1), CreatedAt(1))} }

(***************************************************************************)
(* The provider (bluesky_client.py).                                       *)
(***************************************************************************)
\* get_profiles on success: the profiles of the requested dids the provider knows
get_profiles(dids) ==
    LET known == SelectSeq(dids, LAMBDA d : d \in DOMAIN profiles)
    IN  [i \in 1..Len(known) |-> profiles[known[i]]]

\* app.bsky.feed.getAuthorFeed on success
getAuthorFeed(actor, cursor) == feed[actor][cursor.page]

(***************************************************************************)
(* Store operations (database_service.py).                                 *)
(***************************************************************************)
RECURSIVE SortedSeq(_)
SortedSeq(S) ==
    IF S = {} THEN <<>>
    ELSE LET m == CHOOSE x \in S : \A y \in S : x <= y
         IN  <<m>> \o SortedSeq(S \ {m})

\* table views: the accounts with a view in the trailing 7 days (not written here)
Viewed == DIDs \ {2}

\* get_active_users: the dids of the selected rows
get_active_users(use_simple_query) ==
    IF use_simple_query
    THEN SortedSeq(DOMAIN users)
    ELSE SortedSeq(DOMAIN users \cap Viewed)

\* sums taken over the posts of every account
get_engagement_totals_all(did) ==
    [likes |-> SumCol(posts, "likes"), replies |-> SumCol(posts, "replies"),
     quotes |-> SumCol(posts, "quotes"), reposts |-> SumCol(posts, "reposts")]

\* the sums as SUM gives them over no row, without the GROUP BY and the
\* "or 0" of lines 102 and 113-116
get_engagement_totals_null(did) ==
    LET rows == {p \in posts : p.did = did}
    IN  IF rows /= {}
        THEN [likes |-> SumCol(rows, "likes"), replies |-> SumCol(rows, "replies"),
              quotes |-> SumCol(rows, "quotes"), reposts |-> SumCol(rows, "reposts")]
        ELSE [likes |-> Null, replies |-> Null, quotes |-> Null, reposts |-> Null]

\* get_engagement_totals: with no row of the account the GROUP BY gives no
\* row, fetchone() gives None and line 118 returns the zeros
get_engagement_totals(did) ==
    LET rows == {p \in posts : p.did = did}
    IN  IF rows /= {}
        THEN [likes |-> SumCol(rows, "likes"), replies |-> SumCol(rows, "replies"),
              quotes |-> SumCol(rows, "quotes"), reposts |-> SumCol(rows, "reposts")]
        ELSE [likes |-> 0, replies |-> 0, quotes |-> 0, reposts |-> 0]

\* update_user_profile: UPDATE users SET handle, displayName, avatar WHERE did
update_user_profile(profile) ==
    [users EXCEPT ![profile.did] =
        [@ EXCEPT ![2] = profile.handle, ![3] = profile.display_name,
                  ![4] = profile.avatar]]

\* SnapshotData
SnapshotData(profile, curr_date, engagement) ==
    [did |-> profile.did, handle |-> profile.handle, date |-> curr_date,
     followers |-> profile.followers_count, following |-> profile.following_count,
     posts |-> profile.posts_count, likes |-> engagement.likes,
     replies |-> engagement.replies, quotes |-> engagement.quotes,
     reposts |-> engagement.reposts]

SnapshotRow(uuid, s) ==
    [uuid |-> uuid, followers |-> s.followers, following |-> s.following,
     posts |-> s.posts, date |-> s.date, did |-> s.did, likes |-> s.likes,
     replies |-> s.replies, quotes |-> s.quotes, reposts |-> s.reposts]

\* an upsert without its conflict clause: every call inserts a row
upsert_snapshot_insert_only(S, s) == S \cup {SnapshotRow(Cardinality(S) + 1, s)}

\* an upsert whose conflict clause adds to the stored engagement counters
upsert_snapshot_increment(S, s) ==
    IF \E row \in S : row.did = s.did /\ row.date = s.date
    THEN {IF row.did = s.did /\ row.date = s.date
          THEN [SnapshotRow(row.uuid, s) EXCEPT !.likes = row.likes + s.likes]
          ELSE row : row \in S}
    ELSE S \cup {SnapshotRow(Cardinality(S) + 1, s)}

\* upsert_snapshot: INSERT ... ON CONFLICT (did, date) DO UPDATE SET ...
upsert_snapshot(S, s) ==
    IF \E row \in S : row.did = s.did /\ row.date = s.date
    THEN {IF row.did = s.did /\ row.date = s.date
          THEN SnapshotRow(row.uuid, s) ELSE row : row \in S}
    ELSE S \cup {SnapshotRow(Cardinality(S) + 1, s)}

\* a row of snapshot_logs
LogRow(status, started, completed, duration, total, id) ==
    [status |-> status, time_started |-> started, time_completed |-> completed,
     duration |-> duration, total_users |-> total, id |-> id]

\* an UPDATE of the log that leaves the status as it was
update_snapshot_log_keep_status(L, log_id, date, duration, total_users) ==
    [i \in 1..Len(L) |->
        IF L[i].id = log_id
        THEN [L[i] EXCEPT !.time_completed = date, !.duration = duration,
                          !.total_users = total_users]
        ELSE L[i]]

\* update_snapshot_log: UPDATE snapshot_logs SET ... WHERE id = log_id
update_snapshot_log(L, log_id, date, duration, total_users) ==
    [i \in 1..Len(L) |->
        IF L[i].id = log_id
        THEN [L[i] EXCEPT !.status = "completed", !.time_completed = date,
                          !.duration = duration, !.total_users = total_users]
        ELSE L[i]]

(***************************************************************************)
(* The orchestrator's helpers (snapshot_service.py).                       *)
(***************************************************************************)
\* _chunk_users
_chunk_users(us, chunk_size) ==
    [i \in 1..((Len(us) + chunk_size - 1) \div chunk_size) |->
        SubSeq(us, (i - 1) * chunk_size + 1,
               IF i * chunk_size < Len(us) THEN i * chunk_size ELSE Len(us))]

\* _should_update_user
_should_update_user(profile, user_data) ==
    \/ profile.handle /= Col(user_data, 1)
    \/ profile.display_name /= Col(user_data, 2)
    \/ profile.avatar /= Col(user_data, 3)

\* the skip flag is not looked at
skip_user_never(user_data) == FALSE

\* skip_user = user_data[7]
skip_user(user_data) == Col(user_data, SkipIndex)

(***************************************************************************)
(* The post synchronizer (post_service.py).                                *)
(***************************************************************************)
\* every entry of a page, reposts of others included
AuthoredOrNot(resp, actor) == resp.feed

\* the entries of a page the actor has written (line 35)
Authored(resp, actor) == SelectSeq(resp.feed, LAMBDA e : e.author = actor)

\* a pagination that compares the cursor itself with the cutoff
FetchMoreInstant(resp, nposts, fetch_all, t) ==
    /\ resp.cursor /= NoCursor
    /\ nposts < PostCap
    /\ \/ fetch_all
       \/ resp.cursor.ts > TimeRange(t)

\* a pagination without the cap
FetchMoreNoCap(resp, nposts, fetch_all, t) ==
    /\ resp.cursor /= NoCursor
    /\ \/ fetch_all
       \/ ParseDate(DatePrefix(IsoStr(resp.cursor.ts))) > TimeRange(t)

\* a pagination that goes on in full mode only
FetchMoreFullOnly(resp, nposts, fetch_all, t) ==
    /\ resp.cursor /= NoCursor
    /\ nposts < PostCap
    /\ fetch_all

\* lines 40-52: whether get_posts_for_actor calls itself for the next page
FetchMore(resp, nposts, fetch_all, t) ==
    /\ resp.cursor /= NoCursor
    /\ nposts < PostCap
    /\ \/ fetch_all
       \/ ParseDate(DatePrefix(IsoStr(resp.cursor.ts))) > TimeRange(t)

\* a working set that keeps every occurrence of a uri
drop_duplicates_none(s) == s

\* posts.drop_duplicates(subset=['uri']): the first entry of every uri
drop_duplicates(s) ==
    LET F[i \in 0..Len(s)] ==
            IF i = 0 THEN <<>>
            ELSE IF \E j \in 1..(i - 1) : s[j].uri = s[i].uri
                 THEN F[i - 1]
                 ELSE Append(F[i - 1], s[i])
    IN  F[Len(s)]

\* str(time_range)[0:10]
CutoffDate(t) == DatePrefix(IsoStr(TimeRange(t)))

\* lines 89-98: the stored posts loaded into tracked_posts_df; the column
\* "createdAt" is compared with the date, that is with its midnight
tracked_posts(did, update_all, t) ==
    IF update_all
    THEN {p \in posts : p.did = did}
    ELSE {p \in posts : p.did = did /\ p.createdAt > ParseDate(CutoffDate(t))}

\* a merge that skips no post
SkipOldNever(e, update_all, t) == FALSE

\* line 113: skip old posts if not doing full update
SkipOld(e, update_all, t) ==
    ~update_all /\ StrLeq(IsoStr(e.createdAt), CutoffDate(t))

\* a comparison that finds every fetched post changed
EngagementChangedAlways(row, e) == TRUE

\* lines 121-124: engagement changed
EngagementChanged(row, e) ==
    \/ row.likes /= e.likeCount
    \/ row.replies /= e.replyCount
    \/ row.quotes /= e.quoteCount
    \/ row.reposts /= e.repostCount

UpdateStmt(e, t) ==
    [kind |-> "update", row |-> RowOf(e, t)]
InsertStmt(e, t) ==
    [kind |-> "insert", row |-> RowOf(e, t)]

\* lines 109-148: the statement the loop decides for one fetched post
\* (<<>>: none)
MergeOne(e, tracked, update_all, t) ==
    IF SkipOld(e, update_all, t) THEN <<>>
    ELSE LET existing_post == {row \in tracked : row.uri = e.uri}
         IN  IF existing_post /= {}
             THEN LET existing_row == CHOOSE row \in existing_post : TRUE
                  IN  IF EngagementChanged(existing_row, e)
                      THEN <<UpdateStmt(e, t)>>
                      ELSE <<>>
             ELSE <<InsertStmt(e, t)>>

\* lines 106-164: the statements of one merge in the order they are executed,
\* the updates inside the loop and the queued inserts after it
MergeStatements(ps, tracked, update_all, t) ==
    LET F[i \in 0..Len(ps)] ==
            IF i = 0 THEN <<>>
            ELSE F[i - 1] \o MergeOne(ps[i], tracked, update_all, t)
        all == F[Len(ps)]
    IN  SelectSeq(all, LAMBDA st : st.kind = "update")
        \o SelectSeq(all, LAMBDA st : st.kind = "insert")

\* an UPDATE of table posts without the WHERE clause
ApplyStmtAllRows(rows, st) ==
    IF st.kind = "update"
    THEN {[p EXCEPT !.likes = st.row.likes, !.replies = st.row.replies,
                    !.quotes = st.row.quotes, !.reposts = st.row.reposts,
                    !.updatedAt = st.row.updatedAt] : p \in rows}
    ELSE rows \cup {st.row}

\* an UPDATE that sets "createdAt" as well
ApplyStmtSetsCreated(rows, st) ==
    IF st.kind = "update"
    THEN {IF p.uri = st.row.uri
          THEN [p EXCEPT !.likes = st.row.likes, !.replies = st.row.replies,
                         !.quotes = st.row.quotes, !.reposts = st.row.reposts,
                         !.createdAt = st.row.updatedAt,
                         !.updatedAt = st.row.updatedAt]
          ELSE p : p \in rows}
    ELSE rows \cup {st.row}

\* one statement on the rows of table posts: the UPDATE of lines 127-131 sets
\* the four counters and "updatedAt" of the rows of the uri, the INSERT of
\* lines 155-158 adds a row
ApplyStmt(rows, st) ==
    IF st.kind = "update"
    THEN {IF p.uri = st.row.uri
          THEN [p EXCEPT !.likes = st.row.likes, !.replies = st.row.replies,
                         !.quotes = st.row.quotes, !.reposts = st.row.reposts,
                         !.updatedAt = st.row.updatedAt]
          ELSE p : p \in rows}
    ELSE rows \cup {st.row}

RECURSIVE ApplyTx(_, _)
ApplyTx(rows, tx) ==
    IF tx = <<>> THEN rows ELSE ApplyTx(ApplyStmt(rows, Head(tx)), Tail(tx))

\* the unique key of posts.uri: an INSERT of a uri that a committed row or an
\* earlier statement of the transaction holds is refused
UniqueViolation(rows, tx, st) ==
    /\ st.kind = "insert"
    /\ \/ \E p \in rows : p.uri = st.row.uri
       \/ \E i \in 1..Len(tx) : tx[i].kind = "insert" /\ tx[i].row.uri = st.row.uri

(***************************************************************************)
(* Locals of a batch execution and of a per-account task.                  *)
(***************************************************************************)
NoEngagement == [likes |-> 0, replies |-> 0, quotes |-> 0, reposts |-> 0]
NoProfile == Profile(0, "", 0)
NoSnapshot == SnapshotData(NoProfile, <<0>>, NoEngagement)
NoRun == [valid |-> FALSE, mode |-> FALSE, date |-> <<0>>, provVer |-> 0,
          clean |-> FALSE, snaps |-> {}, rows |-> {}]

\* datetime.now(timezone.utc).strftime('%Y-%m-%d')
Today(t) == DatePrefix(IsoStr(t))

IdleRun ==
    [pc |-> "idle", use_simple_query |-> FALSE, start_time |-> 0, log_date |-> 0,
     log_id |-> 0, curr_date |-> <<0>>, users |-> <<>>, chunk |-> 0,
     all_profiles |-> <<>>, processed_count |-> 0,
     \* history
     logRow |-> 0, okDids |-> {}, badDids |-> {}, counted |-> {}, clean |-> TRUE,
     alone |-> TRUE, provAtStart |-> 0, provAtEnd |-> 0, endDate |-> <<0>>,
     endSnaps |-> {}, prev |-> NoRun]

\* run_snapshot_collection is left: its locals are dropped
Left(rn, pc) ==
    [IdleRun EXCEPT !.pc = pc, !.use_simple_query = rn.use_simple_query,
                    !.log_id = rn.log_id, !.logRow = rn.logRow,
                    !.processed_count = rn.processed_count,
                    !.okDids = rn.okDids, !.badDids = rn.badDids,
                    !.counted = rn.counted]

NoTask ==
    [pc |-> "none", profile |-> NoProfile, update_all |-> FALSE, fetch_all |-> FALSE,
     cursor |-> EmptyCursor, wposts |-> <<>>, num_posts |-> 0, sync_now |-> 0,
     ops |-> <<>>, tx |-> <<>>, engagement |-> NoEngagement,
     result |-> None, snap |-> NoSnapshot,
     \* history
     skipped |-> FALSE, failed |-> FALSE, failedAt |-> "", lost |-> 0,
     feedFailed |-> FALSE,
     effects |-> {}]

\* get_posts_for_actor not called: cursor "", no posts
NoPager == [pc |-> "idle", fetch_all |-> FALSE, n |-> 0, cursor |-> EmptyCursor,
            failed |-> FALSE]
\* get_single_profile not called
NoProbe == [pc |-> "idle", actor |-> Stranger, cause |-> None, raised |-> None,
            value |-> NoProfile]

Active(r) == run[r].pc \notin {"idle", "done", "failed"}
Running(r) == {a \in RealDids : task[r][a].pc \notin {"none", "queued", "done"}}

\* the task returns: its working data is dropped
Return(t, result, snap) ==
    [t EXCEPT !.pc = "done", !.result = result, !.snap = snap,
              !.profile = NoProfile, !.cursor = EmptyCursor, !.wposts = <<>>,
              !.ops = <<>>, !.tx = <<>>, !.sync_now = 0, !.num_posts = 0,
              !.fetch_all = FALSE, !.engagement = NoEngagement]

\* line 71-73: except Exception: log, return None (executed: the statements
\* of the open transaction, which are lost)
Caught(t, executed) ==
    [Return(t, None, NoSnapshot) EXCEPT
        !.failed = TRUE, !.failedAt = t.pc, !.lost = Len(executed)]

(***************************************************************************)
(* Initial states: the store and the provider before the first run.        *)
(***************************************************************************)
InitUsers(skip1, stale1) ==
    [d \in DIDs |->
        IF d = 1 THEN UserRow(d, IF stale1 THEN "old" ELSE "handle", "name",
                              "avatar", skip1)
        ELSE UserRow(d, "handle", "name", "avatar", FALSE)]

\* Account 1 comes with every feed and every stored set (the account whose
\* stored posts are stale has a stale handle too), or skipped with a stale
\* handle; an account of tracked other than 1 is new: no stored post, the
\* plain feed.  snaps: the snapshots of earlier days.
InitWith(tracked, snaps) ==
    /\ \E skip1 \in BOOLEAN, stored \in StoredShapes(1), f \in FeedShapes(1) :
          /\ skip1 => stored = {} /\ f = PlainFeed(1)
          /\ users = InitUsers(skip1, skip1 \/ stored = StaleShape(1))
          /\ posts = stored
          /\ feed = [a \in tracked |-> IF a = 1 THEN f ELSE PlainFeed(a)]
    /\ snapshots = snaps
    /\ snapshot_logs = <<>>
    /\ profiles = [a \in tracked |-> Profile(a, "handle", 100)]
    /\ provVer = 0
    /\ now = Now0
    /\ faults = 0
    \* the command line of the scheduled job: --simple-query or not
    /\ \E simple \in BOOLEAN :
          run = [r \in Runs |-> [IdleRun EXCEPT !.use_simple_query = simple]]
    /\ task = [r \in Runs |-> [a \in RealDids |-> NoTask]]
    /\ lastDone = NoRun
    /\ pg = NoPager
    /\ probe = NoProbe

Init == InitWith(RealDids, {})

(***************************************************************************)
(* The environment.                                                        *)
(***************************************************************************)
\* the clock advances between two runs, and inside a run while its tasks wait
\* or have returned (a tick is a part of a day; a task takes seconds)
Quiet ==
    /\ \A r \in Runs : run[r].pc \in {"idle", "tasks", "done", "failed"}
    /\ \A r \in Runs, a \in RealDids : task[r][a].pc \in {"none", "queued", "done"}
Tick ==
    /\ now - Now0 < MaxTicks
    /\ Quiet
    /\ now' = now + 1
    /\ UNCHANGED <<client, store, provider, faults, run, task, lastDone>>

\* the provider's data change between two runs: post 1 of account a gets 5 more likes and the
\* account one more follower
Liked(e, a) ==
    IF e.uri = <<a, 1>> THEN [e EXCEPT !.likeCount = @ + 5] ELSE e
ProviderChange(a) ==
    /\ provVer < MaxProviderChanges
    /\ \E r \in Runs : run[r].pc /= "idle"
    /\ \A r \in Runs : ~Active(r)
    /\ provVer' = provVer + 1
    /\ profiles' = [profiles EXCEPT ![a].followers_count = @ + 1]
    /\ feed' = [feed EXCEPT ![a] =
                  [i \in 1..Len(@) |->
                      [@[i] EXCEPT !.feed =
                          [j \in 1..Len(@) |-> Liked(@[j], a)]]]]
    /\ UNCHANGED <<client, store, now, faults, run, task, lastDone>>

(***************************************************************************)
(* The runner (run_snapshots.py) and the orchestrator                      *)
(* (snapshot_service.py, create_snapshots_batch).                          *)
(***************************************************************************)
\* run_snapshot_collection, lines 56-60, and create_snapshot_log up to its
\* SELECT COUNT(*)
RunStart(r, exclusive) ==
    /\ run[r].pc = "idle"
    /\ \A q \in Runs : q < r => run[q].pc /= "idle"
    /\ exclusive => \A q \in Runs : ~Active(q)
    /\ run' = [q \in Runs |->
                 IF q = r
                 THEN [run[r] EXCEPT
                         !.pc = "create_log",
                         !.start_time = now, !.log_date = now,
                         !.log_id = Len(snapshot_logs) + 1,
                         !.alone = \A x \in Runs : ~Active(x),
                         !.provAtStart = provVer, !.prev = lastDone]
                 ELSE IF Active(q) THEN [run[q] EXCEPT !.alone = FALSE]
                 ELSE run[q]]
    /\ UNCHANGED <<client, store, provider, now, faults, task, lastDone>>

\* create_snapshot_log: the INSERT and the commit
CreateLog(r) ==
    /\ run[r].pc = "create_log"
    /\ snapshot_logs' = Append(snapshot_logs,
          LogRow("in_progress", run[r].log_date, run[r].log_date, Null, 0,
                 run[r].log_id))
    /\ run' = [run EXCEPT ![r].pc = "batch", ![r].logRow = Len(snapshot_logs) + 1]
    /\ UNCHANGED <<client, users, posts, snapshots, provider, now, faults, task, lastDone>>

\* create_snapshots_batch, lines 90-99
BatchBegin(r) ==
    /\ run[r].pc = "batch"
    /\ LET us == get_active_users(run[r].use_simple_query)
       IN  run' = [run EXCEPT
                     ![r].curr_date = Today(now),
                     ![r].users = us,
                     ![r].chunk = 1,
                     ![r].pc = IF us = <<>> THEN "update_log" ELSE "chunks"]
    /\ UNCHANGED <<client, store, provider, now, faults, task, lastDone>>

\* lines 119-122: one future per collected profile
Submit(r, all_profiles) ==
    [a \in RealDids |->
        IF \E i \in 1..Len(all_profiles) : all_profiles[i].did = a
        THEN [NoTask EXCEPT
                !.pc = "queued",
                !.profile = all_profiles[CHOOSE i \in 1..Len(all_profiles) :
                                            all_profiles[i].did = a]]
        ELSE NoTask]

\* lines 105-112: one pass of the loop over the chunks; ok: get_profiles returned
ChunkStep(r, ok) ==
    LET chunks == _chunk_users(run[r].users, ChunkSize)
        dids == chunks[run[r].chunk]
        all_profiles == IF ok THEN run[r].all_profiles \o get_profiles(dids)
                        ELSE run[r].all_profiles
        last == run[r].chunk = Len(chunks)
    IN  /\ run' = [run EXCEPT
                     ![r].all_profiles = all_profiles,
                     ![r].chunk = @ + 1,
                     ![r].okDids = IF ok THEN @ \cup Range(dids) ELSE @,
                     ![r].badDids = IF ok THEN @ ELSE @ \cup Range(dids),
                     ![r].clean = @ /\ ok,
                     ![r].pc = IF last THEN "tasks" ELSE "chunks"]
        /\ task' = IF last THEN [task EXCEPT ![r] = Submit(r, all_profiles)]
                   ELSE task

FetchChunk(r) ==
    /\ run[r].pc = "chunks"
    /\ ChunkStep(r, TRUE)
    /\ UNCHANGED <<client, store, provider, now, faults, lastDone>>

\* get_profiles raises and nothing catches it: the batch is abandoned
FetchChunkFailAbort(r) ==
    /\ run[r].pc = "chunks"
    /\ faults < MaxFaults
    /\ faults' = faults + 1
    /\ run' = [run EXCEPT ![r].pc = "failed", ![r].clean = FALSE,
                          ![r].badDids = Range(run[r].users)]
    /\ UNCHANGED <<client, store, provider, now, task, lastDone>>

\* get_profiles raises BlueskyAPIError: logged, the chunk is skipped
FetchChunkFail(r) ==
    /\ run[r].pc = "chunks"
    /\ faults < MaxFaults
    /\ faults' = faults + 1
    /\ ChunkStep(r, FALSE)
    /\ UNCHANGED <<client, store, provider, now, lastDone>>

\* a loop over the futures that counts every future, whatever it returned
BatchReturnCountAll(r) ==
    /\ run[r].pc = "tasks"
    /\ \A a \in RealDids : task[r][a].pc \in {"none", "done"}
    /\ run' = [run EXCEPT
                 ![r].processed_count =
                     Cardinality({a \in RealDids : task[r][a].pc = "done"}),
                 ![r].counted = {a \in RealDids : task[r][a].pc = "done"},
                 ![r].pc = "update_log",
                 ![r].provAtEnd = provVer,
                 ![r].endDate = Today(now),
                 ![r].endSnaps = snapshots]
    /\ lastDone' = lastDone
    /\ task' = [task EXCEPT ![r] = [a \in RealDids |-> NoTask]]
    /\ UNCHANGED <<client, store, provider, now, faults>>

\* lines 124-133: every future has completed; the count of the results
BatchReturn(r) ==
    /\ run[r].pc = "tasks"
    /\ \A a \in RealDids : task[r][a].pc \in {"none", "done"}
    /\ run' = [run EXCEPT
                 ![r].processed_count =
                     Cardinality({a \in RealDids : task[r][a].result /= None}),
                 ![r].counted = {a \in RealDids : task[r][a].result /= None},
                 ![r].pc = "update_log",
                 ![r].provAtEnd = provVer,
                 ![r].endDate = Today(now),
                 ![r].endSnaps = snapshots]
    /\ lastDone' = [valid |-> TRUE, mode |-> run[r].use_simple_query,
                    date |-> run[r].curr_date, provVer |-> run[r].provAtStart,
                    clean |-> run[r].clean /\ run[r].alone, snaps |-> snapshots,
                    rows |-> posts]
    \* the executor and its futures are dropped
    /\ task' = [task EXCEPT ![r] = [a \in RealDids |-> NoTask]]
    /\ UNCHANGED <<client, store, provider, now, faults>>

\* run_snapshot_collection, lines 67-71, and update_snapshot_log
UpdateLog(r) ==
    /\ run[r].pc = "update_log"
    /\ snapshot_logs' = update_snapshot_log(snapshot_logs, run[r].log_id, now,
                                            now - run[r].start_time,
                                            run[r].processed_count)
    /\ run' = [run EXCEPT ![r] = Left(@, "done")]
    /\ UNCHANGED <<client, users, posts, snapshots, provider, now, faults, task, lastDone>>

\* a store operation of the runner or of get_active_users fails: the exception
\* leaves run_snapshot_collection (lines 76-78)
RunStoreFail(r) ==
    /\ run[r].pc \in {"create_log", "batch", "update_log"}
    /\ faults < MaxFaults
    /\ faults' = faults + 1
    /\ run' = [run EXCEPT ![r] = Left(@, "failed")]
    /\ UNCHANGED <<client, store, provider, now, task, lastDone>>

(***************************************************************************)
(* The per-account task (snapshot_service.py, process_user_profile) and    *)
(* the post synchronizer it calls (post_service.py).                       *)
(***************************************************************************)
SetTask(r, a, t) == task' = [task EXCEPT ![r][a] = t]

\* lines 30-44: get_user_by_did, the skip flag, _should_update_user
TaskLookup(r, a) ==
    /\ run[r].pc = "tasks"
    /\ task[r][a].pc = "queued"
    /\ Cardinality(Running(r)) < MaxWorkers
    /\ LET t == task[r][a]
       IN  IF a \notin DOMAIN users
           THEN SetTask(r, a, Return(t, None, NoSnapshot))
           ELSE IF skip_user(users[a])
           THEN SetTask(r, a, [Return(t, None, NoSnapshot) EXCEPT !.skipped = TRUE])
           ELSE SetTask(r, a, [t EXCEPT
                    !.pc = IF _should_update_user(t.profile, users[a])
                           THEN "update_user" ELSE "count"])
    /\ UNCHANGED <<client, store, provider, now, faults, run, lastDone>>

\* line 44: update_user_profile
TaskUpdateUser(r, a) ==
    /\ task[r][a].pc = "update_user"
    /\ users' = update_user_profile(task[r][a].profile)
    /\ SetTask(r, a, [task[r][a] EXCEPT !.pc = "count", !.effects = @ \cup {"user"}])
    /\ UNCHANGED <<client, posts, snapshots, snapshot_logs, provider, now, faults, run, lastDone>>

\* line 47 and update_posts_for_actor, lines 63-77: the count of the stored
\* posts decides how far the feed is fetched
TaskCount(r, a) ==
    /\ task[r][a].pc = "count"
    /\ LET update_all == FALSE
           num_posts == Cardinality({p \in posts : p.did = a})
       IN  SetTask(r, a, [task[r][a] EXCEPT
               !.pc = "fetch", !.update_all = update_all, !.num_posts = num_posts,
               !.fetch_all = IF num_posts = 0 THEN TRUE ELSE update_all,
               !.cursor = EmptyCursor, !.wposts = <<>>])
    /\ UNCHANGED <<client, store, provider, now, faults, run, lastDone>>

\* get_posts_for_actor, lines 24-54: one page of the feed
TaskFetch(r, a) ==
    /\ task[r][a].pc = "fetch"
    /\ LET t == task[r][a]
           response == getAuthorFeed(a, t.cursor)
           wposts == t.wposts \o Authored(response, a)
       IN  SetTask(r, a, [t EXCEPT
               !.wposts = wposts,
               !.effects = @ \cup {"feed"},
               !.cursor = response.cursor,
               !.pc = IF FetchMore(response, Len(wposts), t.fetch_all, now)
                      THEN "fetch" ELSE "merge"])
    /\ UNCHANGED <<client, store, provider, now, faults, run, lastDone>>

\* the failure of the provider call leaves get_posts_for_actor and
\* update_posts_for_actor and reaches the task
TaskFetchFailRaise(r, a) ==
    /\ task[r][a].pc = "fetch"
    /\ faults < MaxFaults
    /\ faults' = faults + 1
    /\ SetTask(r, a, [Caught(task[r][a], <<>>) EXCEPT !.feedFailed = TRUE])
    /\ run' = [run EXCEPT ![r].clean = FALSE]
    /\ UNCHANGED <<client, store, provider, now, lastDone>>

\* get_posts_for_actor, lines 56-58: the provider call fails; the posts
\* collected so far are returned
TaskFetchFail(r, a) ==
    /\ task[r][a].pc = "fetch"
    /\ faults < MaxFaults
    /\ faults' = faults + 1
    /\ SetTask(r, a, [task[r][a] EXCEPT !.pc = "merge", !.effects = @ \cup {"feed"},
                                        !.feedFailed = TRUE])
    /\ run' = [run EXCEPT ![r].clean = FALSE]
    /\ UNCHANGED <<client, store, provider, now, lastDone>>

\* a connection that keeps what was executed before the failing statement
RollbackNothing(rows, executed) == ApplyTx(rows, executed)

\* get_connection, lines 56-63: the statements of a transaction that is not
\* committed leave no row behind
Rollback(rows, executed) == rows

\* the INSERTs of a transaction the unique key of posts.uri refuses
Refused(rows, stmts) ==
    \E i \in 1..Len(stmts) : UniqueViolation(rows, SubSeq(stmts, 1, i - 1), stmts[i])

\* update_posts_for_actor, lines 79-165: nothing fetched: return; otherwise
\* drop the duplicates, load the stored posts, decide the statements and
\* execute them inside the transaction; an INSERT of a stored uri is refused
\* and the exception reaches the task
TaskMerge(r, a) ==
    /\ task[r][a].pc = "merge"
    /\ LET t == task[r][a]
           ps == drop_duplicates(t.wposts)
           tracked == tracked_posts(a, t.update_all, now)
           ops == MergeStatements(ps, tracked, t.update_all, now)
       IN  IF t.wposts = <<>>
           THEN SetTask(r, a, [t EXCEPT !.pc = "engage"])
           ELSE IF Refused(posts, ops)
           THEN SetTask(r, a, Caught(t, <<>>))
           ELSE SetTask(r, a, [t EXCEPT !.sync_now = now, !.tx = ops, !.pc = "commit"])
    /\ UNCHANGED <<client, store, provider, now, faults, run, lastDone>>

\* line 167: conn.commit(); an INSERT that waited for a concurrent transaction
\* holding its uri is refused when that transaction has committed
TaskCommit(r, a) ==
    /\ task[r][a].pc = "commit"
    /\ LET t == task[r][a]
       IN  IF Refused(posts, t.tx)
           THEN /\ SetTask(r, a, Caught(t, t.tx))
                /\ posts' = Rollback(posts, t.tx)
           ELSE /\ SetTask(r, a, [t EXCEPT
                       !.pc = "engage", !.tx = <<>>,
                       !.effects = IF t.tx = <<>> THEN @ ELSE @ \cup {"posts"}])
                /\ posts' = ApplyTx(posts, t.tx)
    /\ UNCHANGED <<client, users, snapshots, snapshot_logs, provider, now, faults, run, lastDone>>

\* line 50: get_engagement_totals
TaskEngage(r, a) ==
    /\ task[r][a].pc = "engage"
    /\ SetTask(r, a, [task[r][a] EXCEPT
           !.pc = "upsert", !.engagement = get_engagement_totals(a),
           !.wposts = <<>>, !.cursor = EmptyCursor, !.num_posts = 0, !.sync_now = 0])
    /\ UNCHANGED <<client, store, provider, now, faults, run, lastDone>>

\* lines 53-69: the snapshot is built and upserted; the task returns it
TaskUpsert(r, a) ==
    /\ task[r][a].pc = "upsert"
    /\ LET t == task[r][a]
           snapshot == SnapshotData(t.profile, run[r].curr_date, t.engagement)
       IN  /\ snapshots' = upsert_snapshot(snapshots, snapshot)
           /\ SetTask(r, a, [Return(t, "Snapshot", snapshot) EXCEPT
                                !.effects = @ \cup {"snapshot"}])
    /\ UNCHANGED <<client, users, posts, snapshot_logs, provider, now, faults, run, lastDone>>

\* a store operation of the task fails (psycopg2.Error): the open transaction
\* is rolled back, the exception is caught by process_user_profile (lines
\* 71-73) and the task returns None.  In the merge any number of statements
\* may have been executed before the one that fails.
StoreOp(r, a) ==
    \/ task[r][a].pc = "queued" /\ run[r].pc = "tasks"
    \/ task[r][a].pc \in {"update_user", "count", "commit", "engage", "upsert"}
    \/ task[r][a].pc = "merge" /\ task[r][a].wposts /= <<>>

Executed(r, a) ==
    LET t == task[r][a]
    IN  IF t.pc = "commit" THEN {t.tx}
        ELSE IF t.pc = "merge"
        THEN LET ops == MergeStatements(drop_duplicates(t.wposts),
                                        tracked_posts(a, t.update_all, now),
                                        t.update_all, now)
             IN  {SubSeq(ops, 1, k) : k \in 0..Len(ops)}
        ELSE {<<>>}

\* the exception of a task escapes process_user_profile and the loop over
\* the futures: the batch is abandoned
TaskStoreFailAbort(r, a) ==
    /\ StoreOp(r, a)
    /\ faults < MaxFaults
    /\ faults' = faults + 1
    /\ SetTask(r, a, Caught(task[r][a], <<>>))
    /\ run' = [run EXCEPT ![r].clean = FALSE, ![r].pc = "failed"]
    /\ UNCHANGED <<client, store, provider, now, lastDone>>

TaskStoreFail(r, a) ==
    /\ StoreOp(r, a)
    /\ faults < MaxFaults
    /\ faults' = faults + 1
    /\ \E executed \in Executed(r, a) :
          /\ posts' = Rollback(posts, executed)
          /\ SetTask(r, a, Caught(task[r][a], executed))
    /\ run' = [run EXCEPT ![r].clean = FALSE]
    /\ UNCHANGED <<client, users, snapshots, snapshot_logs, provider, now, lastDone>>

(***************************************************************************)
(* Specifications.                                                         *)
(*   Spec      one batch execution over the two tracked accounts           *)
(*   SeqSpec   the scheduled job: batch executions one after the other,    *)
(*             the provider's data changing between them, no call failing; *)
(*             the provider knows account 1 only                           *)
(*   RaceSpec  two batch executions that may overlap; the provider knows   *)
(*             account 1 only                                              *)
(***************************************************************************)
TaskOk(r, a) ==
    \/ TaskLookup(r, a)
    \/ TaskUpdateUser(r, a)
    \/ TaskCount(r, a)
    \/ TaskFetch(r, a)
    \/ TaskMerge(r, a)
    \/ TaskCommit(r, a)
    \/ TaskEngage(r, a)
    \/ TaskUpsert(r, a)

TaskFault(r, a) ==
    \/ TaskFetchFail(r, a)
    \/ TaskStoreFail(r, a)

RunOk(r) ==
    \/ CreateLog(r)
    \/ BatchBegin(r)
    \/ FetchChunk(r)
    \/ BatchReturn(r)
    \/ UpdateLog(r)

RunFault(r) ==
    \/ FetchChunkFail(r)
    \/ RunStoreFail(r)

Next ==
    \/ Tick
    \/ RunStart(1, TRUE)
    \/ RunOk(1)
    \/ RunFault(1)
    \/ \E a \in RealDids : TaskOk(1, a)
    \/ \E a \in RealDids : TaskFault(1, a)

Spec == Init /\ [][Next]_vars

SeqInit == InitWith({1}, {})

SeqNext ==
    \/ Tick
    \/ ProviderChange(1)
    \/ \E r \in Runs : RunStart(r, TRUE)
    \/ \E r \in Runs : RunOk(r)
    \/ \E r \in Runs : TaskOk(r, 1)

SeqSpec == SeqInit /\ [][SeqNext]_vars

\* the snapshot of account 1 the job wrote the day before
Yesterday ==
    SnapshotRow(1, SnapshotData(Profile(1, "handle", 100), <<Day0 - 1>>, NoEngagement))

RaceInit == InitWith({1}, {Yesterday})

Racers == {1, 2}

RaceNext ==
    \/ \E r \in Racers : RunStart(r, FALSE)
    \/ \E r \in Racers : RunOk(r)
    \/ \E r \in Racers : RunFault(r)
    \/ \E r \in Racers : TaskOk(r, 1)
    \/ \E r \in Racers : TaskFault(r, 1)

RaceSpec == RaceInit /\ [][RaceNext]_vars

(***************************************************************************)
(* The provider client and the pagination on their own: get_single_profile *)
(* for any actor, and get_posts_for_actor against a provider that is free  *)
(* in what it returns.  The working set is kept by its length.             *)
(***************************************************************************)
\* the exception class _call_endpoint raises when the request fails (line 43)
RemoteAPIError == "BlueskyAPIError"

\* get_single_profile; ok: the provider call succeeds
get_single_profile(actor, ok) ==
    IF ~ok
    THEN [cause |-> "transport", raised |-> RemoteAPIError, value |-> NoProfile]
    ELSE LET found == get_profiles(<<actor>>)
         IN  IF found = <<>>
             THEN [cause |-> "no_match", raised |-> "BlueskyAPIError",
                   value |-> NoProfile]
             ELSE [cause |-> "found", raised |-> None, value |-> found[1]]

\* health_check, run_snapshots.py:93, and any other caller; the job either
\* checks its health or collects snapshots (main, lines 160-170)
SingleProfile(actor, ok) ==
    /\ probe.pc = "idle"
    /\ pg.pc = "idle"
    /\ LET res == get_single_profile(actor, ok)
       IN  probe' = [pc |-> "done", actor |-> actor, cause |-> res.cause,
                     raised |-> res.raised, value |-> res.value]
    /\ UNCHANGED <<store, provider, now, faults, run, task, lastDone, pg>>

\* the caller has handled the outcome
SingleProfileDone ==
    /\ probe.pc = "done"
    /\ probe' = NoProbe
    /\ UNCHANGED <<store, provider, now, faults, run, task, lastDone, pg>>

\* numbers of entries of a page the actor has written
PageSizes == {0, PageLimit - 1, PageLimit}
\* cursors the provider returns: two inside the recency window, one on the
\* day after the cutoff day of Now0, one on that cutoff day
CursorTimes == {CreatedAt(1), At(Day0 - 1, 0), CreatedAt(6), CreatedAt(2)}

\* update_posts_for_actor lines 74-77: the first call, cursor "" and no posts
PagerStart(fetch_all) ==
    /\ pg.pc = "idle"
    /\ probe.pc = "idle"
    /\ pg' = [NoPager EXCEPT !.pc = "call", !.fetch_all = fetch_all]
    /\ UNCHANGED <<store, provider, now, faults, run, task, lastDone, probe>>

\* get_posts_for_actor lines 24-54: one page; k of its entries are written by
\* the actor, c is the cursor of the response (NoCursor: none).  The provider
\* does not answer with the cursor it was asked for.
PagerPage(k, c) ==
    /\ pg.pc = "call"
    /\ c /= pg.cursor
    /\ LET response == [authored |-> k, cursor |-> c]
           n == pg.n + response.authored
       IN  pg' = [pg EXCEPT
                    !.n = n, !.cursor = response.cursor,
                    !.pc = IF FetchMore(response, n, pg.fetch_all, now)
                           THEN "call" ELSE "done"]
    /\ UNCHANGED <<store, provider, now, faults, run, task, lastDone, probe>>

\* lines 56-58: the provider call fails; the posts so far are returned
PagerFail ==
    /\ pg.pc = "call"
    /\ pg' = [pg EXCEPT !.pc = "done", !.failed = TRUE]
    /\ UNCHANGED <<store, provider, now, faults, run, task, lastDone, probe>>

\* the working set is handed to update_posts_for_actor
PagerReturn ==
    /\ pg.pc = "done"
    /\ pg' = NoPager
    /\ UNCHANGED <<store, provider, now, faults, run, task, lastDone, probe>>

PagerCall ==
    \/ \E k \in PageSizes, c \in {NoCursor} \cup {CursorAt(ts, 2) : ts \in CursorTimes} :
          PagerPage(k, c)
    \/ PagerFail

ClientInit ==
    /\ users = InitUsers(FALSE, FALSE)
    /\ posts = {}
    /\ feed = [a \in RealDids |-> PlainFeed(a)]
    /\ snapshots = {}
    /\ snapshot_logs = <<>>
    /\ profiles = [a \in RealDids |-> Profile(a, "handle", 100)]
    /\ provVer = 0
    /\ now \in Now0 .. Now0 + MaxTicks
    /\ faults = 0
    /\ run = [r \in Runs |-> IdleRun]
    /\ task = [r \in Runs |-> [a \in RealDids |-> NoTask]]
    /\ lastDone = NoRun
    /\ pg = NoPager
    /\ probe = NoProbe

ClientNext ==
    \/ \E actor \in RealDids \cup {Stranger}, ok \in BOOLEAN : SingleProfile(actor, ok)
    \/ SingleProfileDone
    \/ \E fetch_all \in BOOLEAN : PagerStart(fetch_all)
    \/ PagerCall
    \/ PagerReturn

ClientSpec == ClientInit /\ [][ClientNext]_vars

\* a call of the provider returns, with a response or with an exception
ClientFairSpec == ClientSpec /\ WF_vars(PagerCall)

(***************************************************************************)
(* Claims.                                                                 *)
(***************************************************************************)

\* C1: in every reachable state, whatever the interleaving of two overlapping
\* batch executions working on the same account, table snapshots holds at most
\* one row per (account, date).
C1_OneSnapshotPerAccountAndDate ==
    \A x \in snapshots, y \in snapshots :
        (x.did = y.did /\ x.date = y.date) => x = y

\* two overlapping executions have both upserted today's snapshot of
\* account 1, next to its snapshot of the day before
C1_Witness ==
    /\ task[1][1].result /= None
    /\ task[2][1].result /= None
    /\ run[1].curr_date = run[2].curr_date
    /\ \E x \in snapshots : x.did = 1 /\ x.date = run[1].curr_date
    /\ \E x \in snapshots : x.did = 1 /\ x.date /= run[1].curr_date

\* C2: when a batch execution follows another one on the same day, with the
\* same command line, no call failing in either and the provider's data
\* unchanged since the first began, the rows of table snapshots after the
\* second are those after the first: same keys, same counters.
C2_Idempotent ==
    \A r \in Runs :
        ( /\ run[r].pc = "update_log"
          /\ run[r].prev.valid /\ run[r].prev.clean /\ run[r].clean /\ run[r].alone
          /\ run[r].prev.mode = run[r].use_simple_query
          /\ run[r].prev.date = run[r].curr_date
          /\ run[r].endDate = run[r].curr_date
          /\ run[r].prev.provVer = run[r].provAtEnd )
        => run[r].endSnaps = run[r].prev.snaps

\* a second execution of the day has returned after upserting the snapshot
\* the first had written
C2_Witness ==
    \E r \in Runs :
        /\ run[r].pc = "update_log"
        /\ run[r].prev.valid
        /\ run[r].prev.date = run[r].curr_date
        /\ run[r].endDate = run[r].curr_date
        /\ run[r].prev.provVer = run[r].provAtEnd
        /\ run[r].counted = {1}
        /\ run[r].prev.snaps /= {}
        /\ \E x \in run[r].endSnaps : x.likes > 0

\* the positions of a task inside update_posts_for_actor
SyncPcs == {"count", "fetch", "merge", "commit"}

\* C3: a step in which the task of one account fails leaves the task of every
\* other account, the rows of every other account and the batch where they
\* were; every unfinished task can still take its next step, and once all
\* tasks have finished the batch returns its count.
C3_TaskIsolation ==
    [][ /\ \A a \in RealDids :
             ( /\ task[1][a].pc /= "done"
               /\ task'[1][a].pc = "done"
               /\ task'[1][a].failed )
             => /\ \A b \in RealDids \ {a} : task'[1][b] = task[1][b]
                /\ {p \in posts' : p.did /= a} = {p \in posts : p.did /= a}
                /\ {x \in snapshots' : x.did /= a} = {x \in snapshots : x.did /= a}
                /\ \A b \in DIDs \ {a} : users'[b] = users[b]
                /\ run[1].pc = "tasks" /\ run'[1].pc = "tasks"
        /\ (\E a \in RealDids : task[1][a].failed)
             => /\ run[1].pc = "tasks"
                /\ \A b \in RealDids :
                     task[1][b].pc \notin {"none", "done"} => ENABLED TaskOk(1, b)
                /\ (\A b \in RealDids : task[1][b].pc \in {"none", "done"})
                     => ENABLED BatchReturn(1)
                /\ \A b \in RealDids :
                     task[1][b].result /= None
                     => \E x \in snapshots :
                           /\ x.did = b
                           /\ x.likes = SumCol({p \in posts : p.did = b}, "likes")
      ]_vars

\* the task of one account has failed and the task of the other has written
\* its posts and its snapshot
C3_Witness ==
    \E a \in RealDids, b \in RealDids :
        /\ a /= b
        /\ task[1][a].failed
        /\ task[1][b].result /= None
        /\ {"posts", "snapshot"} \subseteq task[1][b].effects

\* C4: the Post rows change only in the step that commits the transaction of
\* one account, and then by all of its statements; a task that fails inside
\* the synchronizer leaves the Post rows as they were, returns nothing and
\* no snapshot of its account is written by the run.
C4_SyncAtomic ==
    [][ /\ \A a \in RealDids :
             (task[1][a].pc \in SyncPcs /\ task'[1][a].pc = "done")
             => /\ posts' = posts
                /\ task'[1][a].failed
                /\ task'[1][a].result = None
                /\ ~ \E x \in snapshots' : x.did = a
        /\ posts' /= posts
             => \E a \in RealDids :
                   /\ task[1][a].pc = "commit"
                   /\ task'[1][a].pc = "engage"
                   /\ posts' = ApplyTx(posts, task[1][a].tx)
        /\ \A a \in RealDids :
             (task[1][a].failed /\ task[1][a].failedAt \in SyncPcs)
             => ~ \E x \in snapshots : x.did = a
      ]_vars

\* a task has failed after statements of its transaction had been executed
C4_Witness ==
    \E a \in RealDids :
        /\ task[1][a].failed
        /\ task[1][a].failedAt \in {"merge", "commit"}
        /\ task[1][a].lost > 0

\* the statements the transaction of a task holds for a uri
StatementsFor(tx, uri) == {i \in 1..Len(tx) : tx[i].row.uri = uri}

\* C5: when the synchronizer has found no stored post of the account, it
\* fetches the whole feed and, once its transaction is committed, every
\* fetched post the account authored is stored.
C5_BootstrapStoresAll ==
    \A a \in RealDids :
        (task[1][a].pc = "engage" /\ task[1][a].wposts /= <<>>
            /\ task[1][a].num_posts = 0)
        => /\ task[1][a].fetch_all
           /\ \A e \in Range(task[1][a].wposts) : \E p \in posts : p.uri = e.uri

\* C6 as stated: in incremental mode (the account has stored posts and a full
\* update was not asked for) the transaction of a task creates or changes no
\* Post row whose creation time is earlier than now - 7 days.
C6_NoneBeforeCutoffInstant ==
    [][\A a \in RealDids :
          ( /\ task[1][a].pc = "commit"
            /\ ~task[1][a].update_all /\ task[1][a].num_posts > 0 )
          => \A p \in posts' \ posts :
                p.createdAt >= TimeRange(task[1][a].sync_now)
      ]_vars

\* C6: in incremental mode (the account has stored posts and a full update
\* was not asked for) the transaction of a task creates or changes no Post
\* row whose creation date is earlier than the date of now - 7 days, and
\* holds no statement for such a post.
C6_NoneBeforeCutoffDay ==
    [][\A a \in RealDids :
          ( /\ task[1][a].pc = "commit"
            /\ ~task[1][a].update_all /\ task[1][a].num_posts > 0 )
          => /\ \A p \in posts' \ posts :
                   DayOf(p.createdAt) >= DayOf(TimeRange(task[1][a].sync_now))
             /\ \A i \in 1..Len(task[1][a].tx) :
                   DayOf(task[1][a].tx[i].row.createdAt)
                       >= DayOf(TimeRange(task[1][a].sync_now))
      ]_vars

\* a merge in incremental mode has passed over a fetched post of an earlier
\* day than the cutoff's and has committed statements for the others
C6_Witness ==
    \E a \in RealDids :
        /\ task[1][a].pc = "engage"
        /\ ~task[1][a].update_all /\ task[1][a].num_posts > 0
        /\ "posts" \in task[1][a].effects
        /\ \E e \in Range(task[1][a].wposts) :
              /\ DayOf(e.createdAt) < DayOf(TimeRange(task[1][a].sync_now))
              /\ \A p \in posts : p.uri = e.uri => p.likes /= e.likeCount

\* C7: whenever a task merges, it decides at most one statement per uri,
\* however often the uri was fetched, and exactly one INSERT for a fetched
\* uri, not older than the cutoff day, of which no row is stored.
C7_OneStatementPerUri ==
    \A a \in RealDids :
        (task[1][a].pc = "merge" /\ task[1][a].wposts /= <<>>)
        => LET t == task[1][a]
               ops == MergeStatements(drop_duplicates(t.wposts),
                                      tracked_posts(a, t.update_all, now),
                                      t.update_all, now)
           IN  \A e \in Range(t.wposts) :
                  /\ Cardinality(StatementsFor(ops, e.uri)) <= 1
                  /\ ( /\ ~ \E p \in posts : p.uri = e.uri
                       /\ DayOf(e.createdAt) >= DayOf(TimeRange(now)) )
                     => \E i \in 1..Len(ops) :
                           /\ StatementsFor(ops, e.uri) = {i}
                           /\ ops[i].kind = "insert"

\* a uri fetched twice has been committed by one statement
C7_Witness ==
    \E a \in RealDids :
        /\ task[1][a].pc = "commit"
        /\ \E i \in 1..Len(task[1][a].wposts), j \in 1..Len(task[1][a].wposts) :
              /\ i < j
              /\ task[1][a].wposts[i].uri = task[1][a].wposts[j].uri
              /\ Cardinality(StatementsFor(task[1][a].tx,
                                           task[1][a].wposts[i].uri)) = 1

\* C8: the log entry of a run is inserted with status in_progress while no
\* task of the run exists, and is there whenever the run works on its
\* accounts; the step in which the run returns normally leaves the entry
\* completed, with the completion time, the duration since the start and the
\* count of processed accounts; a completed entry stays completed.
C8_RunLog ==
    [][ /\ \A r \in Runs :
             (run[r].pc = "create_log" /\ run'[r].pc = "batch")
             => /\ Len(snapshot_logs') = Len(snapshot_logs) + 1
                /\ snapshot_logs'[Len(snapshot_logs')].status = "in_progress"
                /\ run'[r].logRow = Len(snapshot_logs')
                /\ \A a \in RealDids : task[r][a].pc = "none"
        /\ \A r \in Runs :
             ( \/ run[r].pc \in {"chunks", "tasks", "update_log"}
               \/ \E a \in RealDids : task[r][a].pc /= "none" )
             => /\ run[r].logRow \in 1..Len(snapshot_logs)
                /\ snapshot_logs[run[r].logRow].id = run[r].log_id
                /\ snapshot_logs[run[r].logRow].status = "in_progress"
        /\ \A r \in Runs :
             (run[r].pc = "update_log" /\ run'[r].pc = "done")
             => LET row == snapshot_logs'[run[r].logRow]
                IN  /\ row.status = "completed"
                    /\ row.time_completed = now
                    /\ row.duration = now - run[r].start_time
                    /\ row.total_users = run[r].processed_count
        /\ \A i \in 1..Len(snapshot_logs) :
             snapshot_logs[i].status = "completed"
             => snapshot_logs'[i].status = "completed"
      ]_vars

\* a run that took time and processed an account has returned; its entry is
\* completed
C8_Witness ==
    /\ run[1].pc = "done"
    /\ run[1].processed_count > 0
    /\ snapshot_logs[run[1].logRow].status = "completed"
    /\ snapshot_logs[run[1].logRow].duration > 0
    /\ snapshot_logs[run[1].logRow].total_users = run[1].processed_count

\* C9: when fetching the profiles of a chunk fails, the run goes on with the
\* next chunk or with the tasks; the accounts of the failed chunk get no task,
\* no snapshot and are not counted; every account of a fetched chunk the
\* provider knows gets its task; the returned count is the number of tasks
\* that succeeded, and the run can complete its log entry.
C9_PartialChunkFailure ==
    [][ /\ run[1].pc = "chunks" => run'[1].pc \in {"chunks", "tasks"}
        /\ run[1].pc = "tasks"
             => /\ \A a \in RealDids \cap run[1].badDids : task[1][a].pc = "none"
                /\ \A a \in RealDids \cap run[1].okDids : task[1][a].pc /= "none"
        /\ run[1].pc \in {"tasks", "update_log", "done"}
             => \A a \in run[1].badDids : ~ \E x \in snapshots : x.did = a
        /\ run[1].pc \in {"update_log", "done"}
             => /\ run[1].counted \subseteq run[1].okDids
                /\ run[1].processed_count = Cardinality(run[1].counted)
                /\ \A a \in run[1].counted : \E x \in snapshots : x.did = a
        /\ run[1].pc = "update_log" => ENABLED UpdateLog(1)
        /\ (run[1].pc = "update_log" /\ run'[1].pc = "done")
             => snapshot_logs'[run[1].logRow].total_users
                    = Cardinality(run[1].counted)
      ]_vars

\* the chunk of one account failed, the account of the other chunk was
\* processed and the run has completed its log entry
C9_Witness ==
    /\ run[1].pc = "done"
    /\ run[1].badDids /= {}
    /\ run[1].counted /= {}
    /\ snapshot_logs[run[1].logRow].status = "completed"
    /\ snapshot_logs[run[1].logRow].total_users = 1

\* the skip flag of the stored row of account a: its last column
Flagged(a) == users[a][Len(users[a])]

\* C10: an account whose stored row has the skip flag set gets no snapshot, no
\* Post row, no change of its row, and is never counted; its task returns
\* nothing, having done nothing.
C10_SkipFlag ==
    /\ \A a \in RealDids :
          Flagged(a)
          => /\ task[1][a].pc \in {"none", "queued", "done"}
             /\ task[1][a].effects = {}
             /\ task[1][a].result = None
             /\ task[1][a].pc = "done" => (task[1][a].skipped \/ task[1][a].failed)
             /\ a \notin run[1].counted
             /\ Col(users[a], 1) = "old"
             /\ ~ \E x \in snapshots : x.did = a
             /\ ~ \E p \in posts : p.did = a
    /\ \A a \in RealDids : task[1][a].skipped => Flagged(a)

\* the task of a skipped account has returned
C10_Witness ==
    \E a \in RealDids :
        /\ Flagged(a)
        /\ task[1][a].pc = "done"
        /\ task[1][a].skipped

\* C11: the step in which the batch returns sets the count to the number of
\* accounts whose task committed the upsert of its snapshot in this run; a
\* task that was skipped, found no stored account or failed is not counted, a
\* counted account has its snapshot of the run's date; the step that
\* completes the log entry writes that count as its total.
C11_CountIsSnapshots ==
    [][ /\ (run[1].pc = "tasks" /\ run'[1].pc = "update_log")
             => LET upserted == {a \in RealDids : "snapshot" \in task[1][a].effects}
                IN  /\ run'[1].processed_count = Cardinality(upserted)
                    /\ run'[1].counted = upserted
                    /\ \A a \in RealDids :
                          (task[1][a].skipped \/ task[1][a].failed
                              \/ task[1][a].pc = "none")
                          => a \notin upserted
                    /\ \A a \in upserted :
                          \E x \in snapshots :
                             x.did = a /\ x.date = run[1].curr_date
        /\ (run[1].pc = "update_log" /\ run'[1].pc = "done")
             => /\ snapshot_logs'[run[1].logRow].total_users = run[1].processed_count
                /\ run'[1].processed_count = run[1].processed_count
      ]_vars

\* both accounts had a task, one upserted its snapshot, and the completed log
\* entry holds the count 1
C11_Witness ==
    /\ run[1].pc = "done"
    /\ RealDids \subseteq run[1].okDids
    /\ run[1].processed_count = 1
    /\ Cardinality({x \in snapshots : x.date = <<Day0>>}) = 1
    /\ snapshot_logs[run[1].logRow].total_users = 1

\* C12: once the task of an account has returned its snapshot, the Snapshot
\* row of the account for the date of the run holds the followers, following
\* and posts counters of the profile the provider returned in this run, and
\* likes, replies, quotes and reposts equal to the sums over the Post rows
\* stored for the account.
C12_SnapshotContent ==
    \A a \in RealDids :
        task[1][a].result /= None
        => \E x \in snapshots :
              /\ x.did = a /\ x.date = run[1].curr_date
              /\ x.followers = profiles[a].followers_count
              /\ x.following = profiles[a].following_count
              /\ x.posts = profiles[a].posts_count
              /\ LET rows == {p \in posts : p.did = a}
                 IN  /\ x.likes = SumCol(rows, "likes")
                     /\ x.replies = SumCol(rows, "replies")
                     /\ x.quotes = SumCol(rows, "quotes")
                     /\ x.reposts = SumCol(rows, "reposts")

\* the end-to-end scenario: an account without stored posts, a feed of one
\* page; the posts of the feed are stored and summed in the snapshot
C12_Witness ==
    \E a \in RealDids :
        /\ task[1][a].result /= None
        /\ "posts" \in task[1][a].effects
        /\ feed[a] = PlainFeed(a)
        /\ \E x \in snapshots :
              /\ x.did = a /\ x.followers = 100 /\ x.following = 50 /\ x.posts = 5
              /\ x.likes > 0

\* the entries of the feed of account a that a has written
FeedEntries(a) ==
    UNION {Range(Authored(feed[a][i], a)) : i \in 1..Len(feed[a])}

\* run r followed, on the same day, a run that had written the snapshot of
\* account 1; since then the provider reports other counters for a stored
\* post of the recency window, and every post of the feed is stored
C13_Scenario(r) ==
    /\ run[r].pc = "update_log"
    /\ run[r].prev.valid
    /\ run[r].prev.date = run[r].curr_date
    /\ run[r].endDate = run[r].curr_date
    /\ run[r].prev.provVer < run[r].provAtStart
    /\ run[r].provAtStart = run[r].provAtEnd
    /\ \E x \in run[r].prev.snaps : x.did = 1 /\ x.date = run[r].curr_date
    /\ \A e \in FeedEntries(1) : \E p \in run[r].prev.rows : p.uri = e.uri
    /\ \E e \in FeedEntries(1), p \in run[r].prev.rows :
          /\ p.uri = e.uri
          /\ EngagementChanged(p, e)
          /\ e.createdAt > TimeRange(run[r].start_time)

\* C13: after such a run the account has as many Post rows as before, every
\* post of the recency window whose counters the provider changed holds the
\* provider's four counters and an update time inside this run, and the
\* snapshot of the day is the same row, overwritten with the new sums.
C13_SecondRunUpdates ==
    \A r \in Runs :
        C13_Scenario(r)
        => /\ Cardinality(posts) = Cardinality(run[r].prev.rows)
           /\ \A e \in FeedEntries(1) :
                 e.createdAt > TimeRange(run[r].start_time)
                 => \E p \in posts :
                       /\ p.uri = e.uri
                       /\ ~EngagementChanged(p, e)
                       /\ \A q \in run[r].prev.rows :
                             (q.uri = e.uri /\ EngagementChanged(q, e))
                             => p.updatedAt >= run[r].start_time
           /\ Cardinality(snapshots) = Cardinality(run[r].prev.snaps)
           /\ \E x \in snapshots, y \in run[r].prev.snaps :
                 /\ x.did = 1 /\ x.date = run[r].curr_date
                 /\ x.uuid = y.uuid /\ y.did = 1 /\ y.date = x.date
                 /\ x.likes = SumCol({p \in posts : p.did = 1}, "likes")
                 /\ x.likes /= y.likes

\* the same, for the runs in which no stored post of the feed was created at
\* midnight of the cutoff day
C13_SecondRunUpdatesNoMidnight ==
    \A r \in Runs :
        ( /\ C13_Scenario(r)
          /\ \A e \in FeedEntries(1) : TodOf(e.createdAt) /= 0 )
        => /\ Cardinality(posts) = Cardinality(run[r].prev.rows)
           /\ \E x \in snapshots, y \in run[r].prev.snaps :
                 /\ x.did = 1 /\ x.uuid = y.uuid /\ x.likes /= y.likes

\* such a run has updated the post and overwritten the snapshot
C13_Reached ==
    \E r \in Runs : C13_Scenario(r) /\ run[r].counted = {1}

\* C14: an account for which the provider call of a feed page failed gets no
\* snapshot in the run and its task returns nothing, so that it is not
\* counted.
C14_FeedFailureSkipsAccount ==
    \A a \in RealDids :
        task[1][a].feedFailed
        => /\ task[1][a].result = None
           /\ ~ \E x \in snapshots : x.did = a

\* what the code does when the provider call for a page of the feed fails:
\* the task goes on to the merge with the posts of the pages fetched before,
\* no other task and not the batch are touched; unless something else fails,
\* the task writes the snapshot of the account and the account is counted.
FeedFailureKeepsAccount ==
    [][ /\ \A a \in RealDids :
             ( /\ task[1][a].pc = "fetch"
               /\ faults' = faults + 1
               /\ task'[1][a] /= task[1][a] )
             => /\ task'[1][a].pc = "merge"
                /\ task'[1][a].wposts = task[1][a].wposts
                /\ ~task'[1][a].failed
                /\ \A b \in RealDids \ {a} : task'[1][b] = task[1][b]
                /\ run'[1].pc = run[1].pc
                /\ store' = store
        /\ \A a \in RealDids :
             (task[1][a].feedFailed /\ task[1][a].pc = "done" /\ ~task[1][a].failed)
             => /\ task[1][a].result /= None
                /\ \E x \in snapshots : x.did = a /\ x.date = run[1].curr_date
        /\ (run[1].pc = "tasks" /\ run'[1].pc = "update_log")
             => \A a \in RealDids :
                   (task[1][a].feedFailed /\ ~task[1][a].failed)
                   => a \in run'[1].counted
      ]_vars

\* the provider failed on the second page of a feed; the posts of the first
\* page were committed and the snapshot written
FeedFailureKeepsAccountReached ==
    \E a \in RealDids :
        /\ task[1][a].feedFailed
        /\ task[1][a].result /= None
        /\ "posts" \in task[1][a].effects
        /\ \E x \in snapshots : x.did = a
ReverseChronological(f) ==
    LET all == [i \in 1..Len(f) |-> f[i].feed]
        Cat[i \in 0..Len(f)] == IF i = 0 THEN <<>> ELSE Cat[i - 1] \o all[i]
        es == Cat[Len(f)]
    IN  /\ \A i, j \in 1..Len(es) : i < j => es[i].createdAt >= es[j].createdAt
        /\ \A i \in 1..Len(f), j \in 1..Len(f) :
               (i < j /\ f[i].cursor /= NoCursor)
               => \A k \in 1..Len(f[j].feed) : f[j].feed[k].createdAt <= f[i].cursor.ts

\* the incremental pagination of account a has stopped on the recency
\* cutoff: a cursor was returned, the working set is below the cap, no call
\* failed
StoppedOnCutoff(a) ==
    /\ task[1][a].pc = "merge"
    /\ ~task[1][a].fetch_all
    /\ ~task[1][a].feedFailed
    /\ task[1][a].cursor /= NoCursor
    /\ Len(task[1][a].wposts) < PostCap
    /\ ReverseChronological(feed[a])

\* the entries a has written on the pages that were not requested
Unfetched(a) ==
    UNION { Range(Authored(feed[a][i], a)) :
              i \in task[1][a].cursor.page .. Len(feed[a]) }

\* C20: when the incremental pagination of a reverse-chronological feed has
\* stopped on the recency cutoff, every authored entry that was not fetched
\* was created at or before the instant (now - 7 days), or is in the working
\* set already.
C20_NoneNewerThanCutoffInstant ==
    \A a \in RealDids :
        StoppedOnCutoff(a)
        => \A e \in Unfetched(a) :
              \/ e.createdAt <= TimeRange(now)
              \/ \E w \in Range(task[1][a].wposts) : w.uri = e.uri

\* what the code guarantees: when the incremental pagination of a
\* reverse-chronological feed has stopped on the recency cutoff, every
\* authored entry that was not fetched was created on or before the calendar
\* day of (now - 7 days), or is in the working set already.
NoneUnfetchedAfterCutoffDay ==
    \A a \in RealDids :
        StoppedOnCutoff(a)
        => \A e \in Unfetched(a) :
              \/ DayOf(e.createdAt) <= DayOf(TimeRange(now))
              \/ \E w \in Range(task[1][a].wposts) : w.uri = e.uri

\* the pagination stopped on a cursor of the cutoff day and left unfetched an
\* authored entry of that day, which the merge would not have skipped
UnfetchedOnCutoffDay ==
    \E a \in RealDids :
        /\ StoppedOnCutoff(a)
        /\ DayOf(task[1][a].cursor.ts) = DayOf(TimeRange(now))
        /\ \E e \in Unfetched(a) :
              /\ DayOf(e.createdAt) = DayOf(TimeRange(now))
              /\ e.createdAt > TimeRange(now)
              /\ ~SkipOld(e, FALSE, now)
              /\ ~ \E w \in Range(task[1][a].wposts) : w.uri = e.uri

\* C16: when the provider call succeeds and returns no matching profile, the
\* single-profile lookup fails with an error kind that is not the one of a
\* failed provider call.
C16_NotFoundDistinct ==
    probe.cause = "no_match"
    => /\ probe.raised /= None
       /\ probe.raised /= RemoteAPIError

\* a step of the pagination in which a page was received
PageReceived ==
    /\ pg.pc = "call"
    /\ pg' /= pg
    /\ ~pg'.failed

\* C17: after a page was received a further page is requested if and only if
\* the response has a cursor, the working set is below the cap, and the mode
\* is full or the cursor's timestamp is newer than the instant (now - 7 days).
C17_FurtherPageIffInstant ==
    [][ PageReceived
        => ( pg'.pc = "call"
             <=> /\ pg'.cursor /= NoCursor
                 /\ pg'.n < PostCap
                 /\ \/ pg.fetch_all
                    \/ pg'.cursor.ts > TimeRange(now) )
      ]_vars

\* what the code does: after a page was received a further page is
\* requested if and only if the response has a cursor, the working set is
\* below the cap, and the mode is full or the calendar day of the cursor is
\* later than the calendar day of (now - 7 days); in full mode the recency
\* cutoff never stops pagination.
FurtherPageIffDay ==
    [][ PageReceived
        => ( pg'.pc = "call"
             <=> /\ pg'.cursor /= NoCursor
                 /\ pg'.n < PostCap
                 /\ \/ pg.fetch_all
                    \/ DayOf(pg'.cursor.ts) > DayOf(TimeRange(now)) )
      ]_vars

\* the incremental pagination has stopped below the cap on a cursor of the
\* cutoff day that is newer than the cutoff instant
StoppedOnCursorOfCutoffDay ==
    /\ pg.pc = "done"
    /\ ~pg.fetch_all
    /\ ~pg.failed
    /\ pg.cursor /= NoCursor
    /\ 0 < pg.n /\ pg.n < PostCap
    /\ DayOf(pg.cursor.ts) = DayOf(TimeRange(now))
    /\ pg.cursor.ts > TimeRange(now)

\* C18: at every point of the pagination the working set holds at most
\* 10,000 entries.
C18_WithinCap ==
    pg.n <= PostCap

\* C18 with the last page counted: no page is requested once the working set
\* holds 10,000 entries or more, so that with pages of at most 100 entries
\* the working set holds at most 10,099 entries at every point.
C18_WithinCapPlusPage ==
    /\ pg.pc = "call" => pg.n < PostCap
    /\ pg.n <= PostCap - 1 + PageLimit

\* the pagination has ended with 10,099 entries in the working set
C18_Witness ==
    /\ pg.pc = "done"
    /\ ~pg.failed
    /\ pg.n = PostCap - 1 + PageLimit

FetchedEqual(a) ==
    { <<e, p>> \in Range(task[1][a].wposts) \X posts :
         /\ p.uri = e.uri
         /\ p.likes = e.likeCount /\ p.replies = e.replyCount
         /\ p.quotes = e.quoteCount /\ p.reposts = e.repostCount }

\* C21: while the merge of an account runs, a fetched post whose uri is
\* stored with the same four engagement counters causes no write: no UPDATE
\* of the row is in the transaction and the stored row, its last-updated
\* timestamp included, is the same after every step.
C21_EqualCountersNoWrite ==
    [][ \A a \in RealDids :
          task[1][a].pc \in {"merge", "commit"}
          => \A ep \in FetchedEqual(a) :
                /\ ep[2] \in posts'
                /\ \A i \in 1..Len(task'[1][a].tx) :
                      task'[1][a].tx[i].row.uri /= ep[2].uri
      ]_vars

\* a merge has committed other rows of the account and left the row with the
\* equal counters as it was stored
C21_Witness ==
    \E a \in RealDids :
        /\ task[1][a].pc = "engage"
        /\ "posts" \in task[1][a].effects
        /\ \E ep \in FetchedEqual(a) : ep[2].updatedAt < task[1][a].sync_now
        /\ \E p \in posts : p.did = a /\ p.updatedAt = task[1][a].sync_now

\* C22: in every step of every sequence of syncs, each stored Post row is
\* still stored after the step with the same uri, the same owning account and
\* the same creation timestamp; only its four engagement counters and its
\* last-updated timestamp may differ.
C22_PostRowsKept ==
    [][ \A p \in posts :
          \E q \in posts' :
             /\ q.uri = p.uri
             /\ q.did = p.did
             /\ q.createdAt = p.createdAt
      ]_vars

\* a later sync has updated in place a row that an earlier sync left behind:
\* other counters, a later last-updated timestamp
C22_Witness ==
    /\ lastDone.valid
    /\ \E p \in posts, q \in lastDone.rows :
          /\ q.uri = p.uri /\ q.did = p.did /\ q.createdAt = p.createdAt
          /\ q.likes /= p.likes
          /\ q.updatedAt < p.updatedAt

\* C23: the working set of the sync of account a holds entries written by a
\* only, every statement of its transaction is for a row of a, and no Post
\* row comes from an entry of the feeds that another account has written.
C23_OnlyAuthoredEntries ==
    /\ \A a \in RealDids :
          /\ \A e \in Range(task[1][a].wposts) : e.author = a
          /\ \A i \in 1..Len(task[1][a].tx) :
                /\ task[1][a].tx[i].row.did = a
                /\ task[1][a].tx[i].row.uri[1] = a
    /\ \A p \in posts :
          /\ p.did \in RealDids
          /\ \A a \in RealDids : \A i \in 1..Len(feed[a]) :
                \A k \in 1..Len(feed[a][i].feed) :
                   feed[a][i].feed[k].author /= a => p.uri /= feed[a][i].feed[k].uri

\* a sync has received a page with a repost of another account's post and
\* has committed posts of that page
C23_Witness ==
    \E a \in RealDids :
        /\ task[1][a].pc = "engage"
        /\ "posts" \in task[1][a].effects
        /\ \E k \in 1..Len(feed[a][1].feed) : feed[a][1].feed[k].author /= a
        /\ \E p \in posts : p.did = a /\ p.updatedAt = task[1][a].sync_now

\* C24: a step of the per-account task of account a, whatever the other
\* tasks of the batch have done in between, leaves the Account record of
\* every other account, the Post rows of every other account, every Snapshot
\* row other than the one of (a, date of the run) and the run log as they are.
C24_TaskFrame ==
    [][ \A a \in RealDids :
          (TaskOk(1, a) \/ TaskFault(1, a))
          => /\ \A b \in DOMAIN users \ {a} : users'[b] = users[b]
             /\ DOMAIN users' = DOMAIN users
             /\ {p \in posts' : p.did /= a} = {p \in posts : p.did /= a}
             /\ {x \in snapshots' : x.did /= a \/ x.date /= run[1].curr_date}
                  = {x \in snapshots : x.did /= a \/ x.date /= run[1].curr_date}
             /\ snapshot_logs' = snapshot_logs
      ]_vars

\* the task of one account has updated its Account record, committed posts
\* and written its snapshot while the task of another account is inside its
\* transaction
C24_Witness ==
    \E a, b \in RealDids :
        /\ a /= b
        /\ task[1][a].pc = "done"
        /\ {"user", "posts", "snapshot"} \subseteq task[1][a].effects
        /\ task[1][b].pc = "commit"
        /\ task[1][b].tx /= <<>>

\* the statements the merge of account 1 in run r is about to execute
PendingStatements(r) ==
    LET t == task[r][1]
    IN  MergeStatements(drop_duplicates(t.wposts),
                        tracked_posts(1, t.update_all, now), t.update_all, now)

\* C25: when the merge of a sync decides its statements, no INSERT is for a
\* uri that a stored Post row has: every stored post that a fetched post which
\* is not skipped can match is in the lookup.
C25_InsertOnlyNewUris ==
    \A r \in Runs :
        (task[r][1].pc = "merge" /\ task[r][1].wposts /= <<>>)
        => \A i \in 1..Len(PendingStatements(r)) :
              PendingStatements(r)[i].kind = "insert"
              => ~ \E p \in posts : p.uri = PendingStatements(r)[i].row.uri

\* what holds instead: a stored post whose uri is queued for INSERT was
\* created at midnight of the calendar day of (now - 7 days)
InsertOfStoredOnlyAtMidnight ==
    \A r \in Runs :
        (task[r][1].pc = "merge" /\ task[r][1].wposts /= <<>>)
        => \A i \in 1..Len(PendingStatements(r)) :
              PendingStatements(r)[i].kind = "insert"
              => \A p \in posts :
                    p.uri = PendingStatements(r)[i].row.uri
                    => p.createdAt = ParseDate(CutoffDate(now))

\* C26: no two entries of the run log have the same identifier, and the step
\* in which a run finalizes its entry leaves every other entry as it was.
C26_OwnLogEntry ==
    [][ /\ \A i, j \in 1..Len(snapshot_logs) :
             i /= j => snapshot_logs[i].id /= snapshot_logs[j].id
        /\ \A r \in Racers :
             (run[r].pc = "update_log" /\ run'[r].pc = "done")
             => /\ Len(snapshot_logs') = Len(snapshot_logs)
                /\ \A i \in 1..Len(snapshot_logs) :
                      i /= run[r].logRow => snapshot_logs'[i] = snapshot_logs[i]
      ]_vars

====
